---- MODULE Spec2Model ----
(***************************************************************************)
(* LDAP detection keywords of rust/src/ldap/detect.rs: the option parsers  *)
(* of ldap.responses.operation and ldap.responses.result_code, the         *)
(* transaction matchers with their Any / All / Index selector, the         *)
(* diagnostic-message projector behind ldap.responses.error_message, and   *)
(* the setup / match / free life cycle of an option context.               *)
(*                                                                         *)
(* Text is a sequence of one-character strings.  A usize is kept as three  *)
(* limbs (l2 * 2^62 + l1 * 2^31 + l0) so that 64-bit values stay inside    *)
(* the integers the model checker can hold.                                *)
(***************************************************************************)
EXTENDS Integers, Sequences, FiniteSets

VARIABLES
    tx,         \* the LdapTransaction handed to a match or projection call
    ctx,        \* the parsed option handed to a match call
    ret,        \* what the last call returned and which positions it read
    raw,        \* the option string of a rule keyword
    parsed,     \* what the option parser returned for raw
    local_id,   \* host loop over the multi buffer: next local index
    projected,  \* host loop: the buffers returned so far, by local index
    loop_done,  \* host loop: it has received "no buffer" and stopped
    heap,       \* option contexts ever boxed: id -> content and free count
    sm_list,    \* ids appended to the signature, in order
    phase,      \* "loading", "running", "unloading", "unloaded"
    setup_ret,  \* return values of the setup calls, in order
    txs,        \* the transaction each worker evaluates
    results,    \* last match result of each worker
    uaf         \* a match call has read a freed context

vars == <<tx, ctx, ret, raw, parsed, local_id, projected, loop_done,
          heap, sm_list, phase, setup_ret, txs, results, uaf>>

evalVars == <<tx, ctx, ret>>
parseVars == <<raw, parsed>>
loopVars == <<local_id, projected, loop_done>>
lifeVars == <<heap, sm_list, phase, setup_ret, txs, results, uaf>>

(***************************************************************************)
(* Bounds of the model.                                                    *)
(***************************************************************************)
MaxLen == 3
MaxKeywords == 2

(***************************************************************************)
(* Machine integers.                                                       *)
(***************************************************************************)
MaxI32 == 2147483647
MinI32 == -MaxI32 - 1

None == [some |-> FALSE]
Some(v) == [some |-> TRUE, val |-> v]

Usize(l2, l1, l0) == [l2 |-> l2, l1 |-> l1, l0 |-> l0]

\* n as usize, for a small count n (0 <= n <= MaxI32)
UsizeOf(n) == Usize(0, 0, n)

\* x as usize, for an i32 x: sign extension to 64 bits
I32AsUsize(x) ==
    IF x < 0 THEN Usize(3, MaxI32, x + MaxI32 + 1) ELSE Usize(0, 0, x)

\* u as i32, for a usize u: the low 32 bits, read as two's complement
UsizeAsI32(u) ==
    IF u.l1 % 2 = 1 THEN u.l0 - MaxI32 - 1 ELSE u.l0

\* a <= b on usize
UsizeLe(a, b) ==
    \/ a.l2 < b.l2
    \/ a.l2 = b.l2 /\ a.l1 < b.l1
    \/ a.l2 = b.l2 /\ a.l1 = b.l1 /\ a.l0 <= b.l0

\* a + b on i32: the wrapped sum and whether it left the i32 range
\* (a debug build aborts on overflow, a release build wraps)
I32Add(a, b) ==
    IF a > 0 /\ b > 0 /\ a > MaxI32 - b
    THEN [val |-> (a - MaxI32 - 1) + (b - MaxI32 - 1), overflow |-> TRUE]
    ELSE IF a < 0 /\ b < 0 /\ a < MinI32 - b
    THEN [val |-> (a + MaxI32 + 1) + (b + MaxI32 + 1), overflow |-> TRUE]
    ELSE [val |-> a + b, overflow |-> FALSE]

(***************************************************************************)
(* Transaction model: LdapTransaction, LdapMessage, ProtocolOp.            *)
(***************************************************************************)
ResultBearing ==
    {"BindResponse", "SearchResultDone", "ModifyResponse", "AddResponse",
     "DelResponse", "ModDnResponse", "CompareResponse", "ExtendedResponse"}

NonResultBearing ==
    {"SearchResultEntry", "SearchResultReference", "IntermediateResponse"}

\* BindResponse, ModifyResponse and ExtendedResponse keep their LdapResult in
\* a field named result; the other result-bearing operations are one.
Nested == {"BindResponse", "ModifyResponse", "ExtendedResponse"}

LdapResult(code, msg) == [result_code |-> code, diagnostic_message |-> msg]

ResultOp(tag, code, msg) ==
    IF tag \in Nested
    THEN [tag |-> tag, result |-> LdapResult(code, msg)]
    ELSE [tag |-> tag, result_code |-> code, diagnostic_message |-> msg]

PlainOp(tag) == [tag |-> tag]

LdapMessage(op) == [protocol_op |-> op]

\* ProtocolOp::to_u8: the protocol operation tag
to_u8(op) ==
    CASE op.tag = "BindRequest" -> 0
      [] op.tag = "BindResponse" -> 1
      [] op.tag = "UnbindRequest" -> 2
      [] op.tag = "SearchRequest" -> 3
      [] op.tag = "SearchResultEntry" -> 4
      [] op.tag = "SearchResultDone" -> 5
      [] op.tag = "ModifyRequest" -> 6
      [] op.tag = "ModifyResponse" -> 7
      [] op.tag = "AddRequest" -> 8
      [] op.tag = "AddResponse" -> 9
      [] op.tag = "DelRequest" -> 10
      [] op.tag = "DelResponse" -> 11
      [] op.tag = "ModDnRequest" -> 12
      [] op.tag = "ModDnResponse" -> 13
      [] op.tag = "CompareRequest" -> 14
      [] op.tag = "CompareResponse" -> 15
      [] op.tag = "AbandonRequest" -> 16
      [] op.tag = "SearchResultReference" -> 19
      [] op.tag = "ExtendedRequest" -> 23
      [] op.tag = "ExtendedResponse" -> 24
      [] op.tag = "IntermediateResponse" -> 25

LdapTransaction(request, responses) ==
    [request |-> request, responses |-> responses]

(***************************************************************************)
(* Scalar constraint: DetectUintData and its match.                        *)
(***************************************************************************)
DetectUintData(mode, arg1) == [mode |-> mode, arg1 |-> arg1]

detect_match_uint(val, du) ==
    CASE du.mode = "Equal" -> val = du.arg1
      [] du.mode = "NotEqual" -> val # du.arg1
      [] du.mode = "Lt" -> val < du.arg1
      [] du.mode = "Gt" -> val > du.arg1

rs_detect_u8_match(val, du) == IF detect_match_uint(val, du) THEN 1 ELSE 0

rs_detect_u32_match(val, du) == IF detect_match_uint(val, du) THEN 1 ELSE 0

(***************************************************************************)
(* Selector: LdapIndex.                                                    *)
(***************************************************************************)
Any == [kind |-> "Any"]
All == [kind |-> "All"]
Index(i) == [kind |-> "Index", idx |-> i]

\* DetectLdapRespOperationData { du8, index }
DetectLdapRespOperationData(du8, index) == [du8 |-> du8, index |-> index]

\* DetectLdapRespResultData { du32, index }
DetectLdapRespResultData(du32, index) == [du32 |-> du32, index |-> index]

(***************************************************************************)
(* Field extractor for the result code.                                    *)
(***************************************************************************)
get_ldap_result_code(response) ==
    LET op == response.protocol_op IN
    CASE op.tag = "BindResponse" -> Some(op.result.result_code)
      [] op.tag = "SearchResultDone" -> Some(op.result_code)
      [] op.tag = "ModifyResponse" -> Some(op.result.result_code)
      [] op.tag = "AddResponse" -> Some(op.result_code)
      [] op.tag = "DelResponse" -> Some(op.result_code)
      [] op.tag = "ModDnResponse" -> Some(op.result_code)
      [] op.tag = "CompareResponse" -> Some(op.result_code)
      [] op.tag = "ExtendedResponse" -> Some(op.result.result_code)
      [] OTHER -> None

(***************************************************************************)
(* Access to the response vector.                                          *)
(***************************************************************************)
\* ResponsesLen answering with the response count of the first worker's
\* transaction, whichever transaction the call is on
ResponsesLen_cached(t) == UsizeOf(Len(txs[1].responses))

\* tx.responses.len()
ResponsesLen(t) == UsizeOf(Len(t.responses))

\* &v[index]: the item, or a panic when index is out of bounds
VecIndex(v, index) ==
    IF index.l2 = 0 /\ index.l1 = 0 /\ index.l0 < Len(v)
    THEN [ok |-> TRUE, pos |-> index.l0, item |-> v[index.l0 + 1]]
    ELSE [ok |-> FALSE]

\* ResolveIndex with the backward index counted from one past the end
ResolveIndex_past_end(len, idx) ==
    IF idx < 0
    THEN LET sum == I32Add(UsizeAsI32(len), idx + 1)
         IN  [index |-> I32AsUsize(sum.val), overflow |-> sum.overflow]
    ELSE [index |-> I32AsUsize(idx), overflow |-> FALSE]

\* the index of LdapIndex::Index(idx) against a response count len
ResolveIndex(len, idx) ==
    IF idx < 0
    THEN LET sum == I32Add(UsizeAsI32(len), idx)
         IN  [index |-> I32AsUsize(sum.val), overflow |-> sum.overflow]
    ELSE [index |-> I32AsUsize(idx), overflow |-> FALSE]

\* OutOfRange with the comparison made strict: index = len passes
OutOfRange_strict(len, index) == len # index /\ UsizeLe(len, index)

\* tx.responses.len() <= index
OutOfRange(len, index) == UsizeLe(len, index)

\* what a match call reports: its return value, the 0-based positions of the
\* responses it read, whether it aborted on an out-of-bounds index, and
\* whether its index sum left the i32 range
MatchOut(r, reads, abort, overflow) ==
    [ret |-> r, reads |-> reads, abort |-> abort, overflow |-> overflow]

(***************************************************************************)
(* ldap.responses.operation                                                *)
(***************************************************************************)
\* op_any_loop giving up at the first response that does not match
op_any_loop_first_only(responses, du8, i) ==
    IF i > Len(responses)
    THEN [ret |-> 0, reads |-> 0 .. Len(responses) - 1,
          abort |-> FALSE, overflow |-> FALSE]
    ELSE [ret |-> rs_detect_u8_match(to_u8(responses[i].protocol_op), du8),
          reads |-> 0 .. i - 1, abort |-> FALSE, overflow |-> FALSE]

RECURSIVE op_any_loop(_, _, _)
op_any_loop(responses, du8, i) ==
    IF i > Len(responses)
    THEN MatchOut(0, 0 .. Len(responses) - 1, FALSE, FALSE)
    ELSE IF rs_detect_u8_match(to_u8(responses[i].protocol_op), du8) = 1
         THEN MatchOut(1, 0 .. i - 1, FALSE, FALSE)
         ELSE op_any_loop(responses, du8, i + 1)

RECURSIVE op_all_loop(_, _, _)
op_all_loop(responses, du8, i) ==
    IF i > Len(responses)
    THEN MatchOut(1, 0 .. Len(responses) - 1, FALSE, FALSE)
    ELSE IF rs_detect_u8_match(to_u8(responses[i].protocol_op), du8) = 0
         THEN MatchOut(0, 0 .. i - 1, FALSE, FALSE)
         ELSE op_all_loop(responses, du8, i + 1)

op_index(t, du8, idx) ==
    LET r == ResolveIndex(ResponsesLen(t), idx) IN
    IF OutOfRange(ResponsesLen(t), r.index)
    THEN MatchOut(0, {}, FALSE, r.overflow)
    ELSE LET response == VecIndex(t.responses, r.index) IN
         IF ~response.ok
         THEN MatchOut(0, {}, TRUE, r.overflow)
         ELSE MatchOut(rs_detect_u8_match(to_u8(response.item.protocol_op), du8),
                       {response.pos}, FALSE, r.overflow)

ldap_detect_responses_operation_match(t, c) ==
    CASE c.index.kind = "Any" -> op_any_loop(t.responses, c.du8, 1)
      [] c.index.kind = "All" -> op_all_loop(t.responses, c.du8, 1)
      [] c.index.kind = "Index" -> op_index(t, c.du8, c.index.idx)

(***************************************************************************)
(* ldap.responses.result_code                                              *)
(***************************************************************************)
RECURSIVE rc_any_loop(_, _, _)
rc_any_loop(responses, du32, i) ==
    IF i > Len(responses)
    THEN MatchOut(0, 0 .. Len(responses) - 1, FALSE, FALSE)
    ELSE LET result_code == get_ldap_result_code(responses[i]) IN
         IF result_code.some /\ rs_detect_u32_match(result_code.val, du32) = 1
         THEN MatchOut(1, 0 .. i - 1, FALSE, FALSE)
         ELSE rc_any_loop(responses, du32, i + 1)

\* rc_all_loop counting a response without a result code as a failure
RECURSIVE rc_all_loop_strict(_, _, _)
rc_all_loop_strict(responses, du32, i) ==
    IF i > Len(responses)
    THEN [ret |-> 1, reads |-> 0 .. Len(responses) - 1,
          abort |-> FALSE, overflow |-> FALSE]
    ELSE LET result_code == get_ldap_result_code(responses[i]) IN
         IF ~result_code.some \/ rs_detect_u32_match(result_code.val, du32) = 0
         THEN [ret |-> 0, reads |-> 0 .. i - 1,
               abort |-> FALSE, overflow |-> FALSE]
         ELSE rc_all_loop_strict(responses, du32, i + 1)

RECURSIVE rc_all_loop(_, _, _)
rc_all_loop(responses, du32, i) ==
    IF i > Len(responses)
    THEN MatchOut(1, 0 .. Len(responses) - 1, FALSE, FALSE)
    ELSE LET result_code == get_ldap_result_code(responses[i]) IN
         IF result_code.some /\ rs_detect_u32_match(result_code.val, du32) = 0
         THEN MatchOut(0, 0 .. i - 1, FALSE, FALSE)
         ELSE rc_all_loop(responses, du32, i + 1)

rc_index(t, du32, idx) ==
    LET r == ResolveIndex(ResponsesLen(t), idx) IN
    IF OutOfRange(ResponsesLen(t), r.index)
    THEN MatchOut(0, {}, FALSE, r.overflow)
    ELSE LET response == VecIndex(t.responses, r.index) IN
         IF ~response.ok
         THEN MatchOut(0, {}, TRUE, r.overflow)
         ELSE LET result_code == get_ldap_result_code(response.item) IN
              IF result_code.some
              THEN MatchOut(rs_detect_u32_match(result_code.val, du32),
                            {response.pos}, FALSE, r.overflow)
              ELSE MatchOut(0, {response.pos}, FALSE, r.overflow)

ldap_detect_responses_result_code_match(t, c) ==
    CASE c.index.kind = "Any" -> rc_any_loop(t.responses, c.du32, 1)
      [] c.index.kind = "All" -> rc_all_loop(t.responses, c.du32, 1)
      [] c.index.kind = "Index" -> rc_index(t, c.du32, c.index.idx)

(***************************************************************************)
(* ldap.responses.error_message: the per-response projector.               *)
(***************************************************************************)
Untouched == [state |-> "untouched"]
NullPtr == [state |-> "null"]
TextPtr(s) == [state |-> "text", text |-> s]

\* what a projection call reports: its return value, the two out-parameters,
\* the positions read and whether it aborted on an out-of-bounds index
ProjectOut(ok, buffer, buffer_len, reads, abort) ==
    [ok |-> ok, buffer |-> buffer, buffer_len |-> buffer_len,
     reads |-> reads, abort |-> abort]

\* error_msg_of treating an empty message as absent and leaving out the
\* ExtendedResponse arm
error_msg_of_nonempty(op) ==
    CASE op.tag = "BindResponse" /\ op.result.diagnostic_message # <<>> ->
            Some(op.result.diagnostic_message)
      [] op.tag = "SearchResultDone" /\ op.diagnostic_message # <<>> ->
            Some(op.diagnostic_message)
      [] op.tag = "ModifyResponse" -> Some(op.result.diagnostic_message)
      [] op.tag = "AddResponse" -> Some(op.diagnostic_message)
      [] op.tag = "DelResponse" -> Some(op.diagnostic_message)
      [] op.tag = "ModDnResponse" -> Some(op.diagnostic_message)
      [] op.tag = "CompareResponse" -> Some(op.diagnostic_message)
      [] OTHER -> None

\* the diagnostic message of a protocol operation, None for `_ => return false`
error_msg_of(op) ==
    CASE op.tag = "BindResponse" -> Some(op.result.diagnostic_message)
      [] op.tag = "SearchResultDone" -> Some(op.diagnostic_message)
      [] op.tag = "ModifyResponse" -> Some(op.result.diagnostic_message)
      [] op.tag = "AddResponse" -> Some(op.diagnostic_message)
      [] op.tag = "DelResponse" -> Some(op.diagnostic_message)
      [] op.tag = "ModDnResponse" -> Some(op.diagnostic_message)
      [] op.tag = "CompareResponse" -> Some(op.diagnostic_message)
      [] op.tag = "ExtendedResponse" -> Some(op.result.diagnostic_message)
      [] OTHER -> None

\* local_id >= tx.responses.len(), local_id already widened to usize
LocalIdPastEnd(lid, t) == UsizeLe(ResponsesLen(t), lid)

\* lid is the u32 local_id widened to usize
ldap_tx_get_responses_error_msg(t, lid) ==
    IF LocalIdPastEnd(lid, t)
    THEN ProjectOut(FALSE, Untouched, Untouched, {}, FALSE)
    ELSE LET response == VecIndex(t.responses, lid) IN
         IF ~response.ok
         THEN ProjectOut(FALSE, NullPtr, 0, {}, TRUE)
         ELSE LET str_buffer == error_msg_of(response.item.protocol_op) IN
              IF str_buffer.some
              THEN ProjectOut(TRUE, TextPtr(str_buffer.val), Len(str_buffer.val),
                              {response.pos}, FALSE)
              ELSE ProjectOut(FALSE, NullPtr, 0, {response.pos}, FALSE)

(***************************************************************************)
(* Inputs: the transactions and options the calls are applied to.          *)
(***************************************************************************)
SeqsUpTo(S, n) == UNION {[1 .. k -> S] : k \in 0 .. n}

NoText == <<>>
ShortText == <<"e">>
LongText == <<"b", "a", "d">>

\* responses a transaction is built from: result-bearing ones whose code is
\* 0 or not, with an empty or a non-empty message, and non-result-bearing ones
EvalPool ==
    {LdapMessage(ResultOp("BindResponse", 49, LongText)),
     LdapMessage(PlainOp("SearchResultEntry")),
     LdapMessage(ResultOp("SearchResultDone", 0, NoText)),
     LdapMessage(ResultOp("SearchResultDone", 32, ShortText)),
     LdapMessage(ResultOp("ExtendedResponse", 2, ShortText))}

\* one response of every operation a server can send
EveryOperation ==
    {LdapMessage(ResultOp(tag, 1, ShortText)) : tag \in ResultBearing}
        \cup {LdapMessage(PlainOp(tag)) : tag \in NonResultBearing}

SearchRequest == LdapMessage(PlainOp("SearchRequest"))

Transactions ==
    {LdapTransaction(Some(SearchRequest), rs) :
        rs \in SeqsUpTo(EvalPool, MaxLen) \cup {<<m>> : m \in EveryOperation}}

IdxSamples == {MinI32, MinI32 + 1, MaxI32} \cup (-(MaxLen + 1) .. MaxLen)

Selectors == {Any, All} \cup {Index(i) : i \in IdxSamples}

Constraints ==
    {DetectUintData("Equal", 0), DetectUintData("Equal", 5),
     DetectUintData("NotEqual", 4), DetectUintData("Gt", 1)}

\* an option context as the engine holds it: the keyword it belongs to and
\* the boxed data; the sticky buffer keyword has no option (SIGMATCH_NOOPT)
OpCtx(data) == [kw |-> "operation", data |-> data]
RcCtx(data) == [kw |-> "result_code", data |-> data]
NoCtx == [kw |-> "none"]

Options ==
    {OpCtx(DetectLdapRespOperationData(du, sel)) :
        du \in Constraints, sel \in Selectors}
        \cup {RcCtx(DetectLdapRespResultData(du, sel)) :
                du \in Constraints, sel \in Selectors}
        \cup {NoCtx}

\* local_id values (u32, widened): the first few and u32::MAX
LocalIds == {UsizeOf(k) : k \in 0 .. MaxLen + 1} \cup {Usize(0, 1, MaxI32)}

NoCall == [fn |-> "none"]

(***************************************************************************)
(* Idle values of the variables a specification does not use.              *)
(***************************************************************************)
EvalIdle ==
    /\ tx = LdapTransaction(None, <<>>)
    /\ ctx = NoCtx
    /\ ret = NoCall

ParseIdle ==
    /\ raw = <<>>
    /\ parsed = NoCall

LoopIdle ==
    /\ local_id = 0
    /\ projected = <<>>
    /\ loop_done = FALSE

LifeIdle ==
    /\ heap = <<>>
    /\ sm_list = <<>>
    /\ phase = "idle"
    /\ setup_ret = <<>>
    /\ txs = <<>>
    /\ results = <<>>
    /\ uaf = FALSE

(***************************************************************************)
(* Match and projection calls on one transaction.                          *)
(***************************************************************************)
RespOperationMatch ==
    /\ ctx.kw = "operation"
    /\ ret' = [fn |-> "operation_match",
               out |-> ldap_detect_responses_operation_match(tx, ctx.data)]
    /\ UNCHANGED <<tx, ctx, parseVars, loopVars, lifeVars>>

RespResultCodeMatch ==
    /\ ctx.kw = "result_code"
    /\ ret' = [fn |-> "result_code_match",
               out |-> ldap_detect_responses_result_code_match(tx, ctx.data)]
    /\ UNCHANGED <<tx, ctx, parseVars, loopVars, lifeVars>>

ResponsesErrorMsg ==
    /\ ctx.kw = "none"
    /\ \E lid \in LocalIds :
          ret' = [fn |-> "error_msg", lid |-> lid,
                  out |-> ldap_tx_get_responses_error_msg(tx, lid)]
    /\ UNCHANGED <<tx, ctx, parseVars, loopVars, lifeVars>>

EvalInit ==
    /\ tx \in Transactions
    /\ ctx \in Options
    /\ ret = NoCall
    /\ ParseIdle /\ LoopIdle /\ LifeIdle

EvalNext ==
    \/ RespOperationMatch
    \/ RespResultCodeMatch
    \/ ResponsesErrorMsg

SpecEval == EvalInit /\ [][EvalNext]_vars

(***************************************************************************)
(* The host's multi-buffer loop: local_id = 0, 1, 2, ... until the         *)
(* projector returns no buffer.                                            *)
(***************************************************************************)
HostGetMultiData ==
    /\ ~loop_done
    /\ LET out == ldap_tx_get_responses_error_msg(tx, UsizeOf(local_id)) IN
       IF out.ok
       THEN /\ projected' = Append(projected, out.buffer)
            /\ local_id' = local_id + 1
            /\ loop_done' = FALSE
       ELSE /\ loop_done' = TRUE
            /\ UNCHANGED <<projected, local_id>>
    /\ UNCHANGED <<tx, ctx, ret, parseVars, lifeVars>>

LoopInit ==
    /\ tx \in Transactions
    /\ ctx = NoCtx
    /\ ret = NoCall
    /\ local_id = 0
    /\ projected = <<>>
    /\ loop_done = FALSE
    /\ ParseIdle /\ LifeIdle

LoopNext == HostGetMultiData

SpecLoop == LoopInit /\ [][LoopNext]_vars

(***************************************************************************)
(* What the claims speak of, read from the data model.                     *)
(***************************************************************************)
IsMatchCall == ret.fn \in {"operation_match", "result_code_match"}

\* the response carries the field the keyword tests
Carries(kw, m) == kw = "operation" \/ m.protocol_op.tag \in ResultBearing

\* the value of that field
FieldOf(kw, m) ==
    IF kw = "operation" THEN to_u8(m.protocol_op)
    ELSE IF m.protocol_op.tag \in Nested
         THEN m.protocol_op.result.result_code
         ELSE m.protocol_op.result_code

\* the diagnostic message of a result-bearing response
MessageOf(m) ==
    IF m.protocol_op.tag \in Nested
    THEN m.protocol_op.result.diagnostic_message
    ELSE m.protocol_op.diagnostic_message

ConstraintOf(c) == IF c.kw = "operation" THEN c.data.du8 ELSE c.data.du32

\* the response carries the field and its value satisfies the constraint
Passes(c, m) ==
    Carries(c.kw, m) /\ detect_match_uint(FieldOf(c.kw, m), ConstraintOf(c))

\* the response carries the field and its value fails the constraint
Fails(c, m) ==
    Carries(c.kw, m) /\ ~detect_match_uint(FieldOf(c.kw, m), ConstraintOf(c))

NumResponses == Len(tx.responses)

\* C1: with selector All a responses matcher returns 0 exactly when some
\* response carries the tested field and its value fails the constraint;
\* responses without the field are skipped, so All returns 1 on an empty
\* sequence, on one with no result-bearing response, and on a mix of passing
\* result-bearing responses and non-result-bearing ones.
C1_AllFailsOnlyOnCarriedFailure ==
    (IsMatchCall /\ ctx.data.index = All) =>
        /\ ret.out.ret \in {0, 1}
        /\ ret.out.ret = 0 <=>
              \E i \in 1 .. NumResponses : Fails(ctx, tx.responses[i])

\* a result_code All call that returned 1 on a transaction mixing a passing
\* result-bearing response with a non-result-bearing one
C1_Witness ==
    /\ ret.fn = "result_code_match"
    /\ ctx.data.index = All
    /\ ret.out.ret = 1
    /\ \E i, j \in 1 .. NumResponses :
          /\ ~Carries(ctx.kw, tx.responses[i])
          /\ Passes(ctx, tx.responses[j])

\* C2: with selector Index(i) the position is i for i >= 0 and n + i for
\* i < 0; a position outside 0 .. n-1 gives 0; otherwise the result is 1
\* exactly when the one addressed response carries the field and passes.
C2_IndexAddressesOneResponse ==
    (IsMatchCall /\ ctx.data.index.kind = "Index") =>
        LET i == ctx.data.index.idx
            pos == IF i >= 0 THEN i ELSE NumResponses + i
        IN  /\ ret.out.ret \in {0, 1}
            /\ IF pos < 0 \/ pos >= NumResponses
               THEN ret.out.ret = 0
               ELSE ret.out.ret = 1 <=> Passes(ctx, tx.responses[pos + 1])

\* Index(-1) matched on the last of several responses, which differs from
\* the first
C2_Witness ==
    /\ IsMatchCall
    /\ ctx.data.index = Index(-1)
    /\ NumResponses >= 2
    /\ ret.out.ret = 1
    /\ Passes(ctx, tx.responses[NumResponses])
    /\ ~Passes(ctx, tx.responses[1])

\* C3: with selector Any a responses matcher returns 1 exactly when at least
\* one response carries the field and passes; responses that lack the field
\* or fail neither match nor stop the scan; an empty sequence gives 0.
C3_AnyMatchesSomePassing ==
    (IsMatchCall /\ ctx.data.index = Any) =>
        /\ ret.out.ret \in {0, 1}
        /\ ret.out.ret = 1 <=>
              \E i \in 1 .. NumResponses : Passes(ctx, tx.responses[i])

\* an Any call that returned 1 after scanning past a response without the
\* field and a response that fails
C3_Witness ==
    /\ ret.fn = "result_code_match"
    /\ ctx.data.index = Any
    /\ ret.out.ret = 1
    /\ NumResponses = 3
    /\ ~Carries(ctx.kw, tx.responses[1])
    /\ Fails(ctx, tx.responses[2])
    /\ Passes(ctx, tx.responses[3])

\* C6: the projector called with local index k returns false exactly when
\* k >= the number of responses or response k is not result-bearing; in
\* every other case it returns true with the diagnostic message of response
\* k and its length (an empty message included).  It yields text for the
\* same responses for which the result-code extractor yields a code.
C6_ProjectorReturnsMessageOfSlot ==
    (ret.fn = "error_msg") =>
        LET k == ret.lid
            inside == k.l2 = 0 /\ k.l1 = 0 /\ k.l0 < NumResponses
        IN  /\ ~ret.out.ok <=>
                  \/ ~inside
                  \/ tx.responses[k.l0 + 1].protocol_op.tag \notin ResultBearing
            /\ ret.out.ok =>
                  /\ ret.out.buffer = TextPtr(MessageOf(tx.responses[k.l0 + 1]))
                  /\ ret.out.buffer_len = Len(MessageOf(tx.responses[k.l0 + 1]))
            /\ inside =>
                  (ret.out.ok <=> get_ldap_result_code(tx.responses[k.l0 + 1]).some)

\* a projection that returned an empty message as present, with length 0
C6_Witness ==
    /\ ret.fn = "error_msg"
    /\ ret.out.ok
    /\ ret.out.buffer = TextPtr(NoText)
    /\ ret.out.buffer_len = 0
    /\ ret.lid = UsizeOf(1)

\* C7: when the host calls the projector with local index 0, 1, 2, ... and
\* stops at the first "no buffer", every response that carries a diagnostic
\* message has been returned by the call whose local index is its position.
C7_EveryMessageProjected ==
    loop_done =>
        \A k \in 1 .. NumResponses :
            tx.responses[k].protocol_op.tag \in ResultBearing =>
                /\ k <= Len(projected)
                /\ projected[k] = TextPtr(MessageOf(tx.responses[k]))

\* response counts the index arithmetic is checked on: the small ones and
\* the largest ones below 2^31
LenSamples ==
    {UsizeOf(n) : n \in 0 .. MaxLen} \cup {UsizeOf(MaxI32 - 1), UsizeOf(MaxI32)}

\* C8: no match or projection call reads a position outside 0 .. len-1 or
\* aborts: for a response count below 2^31 and any i32 index the sum
\* len + i of a negative i stays in the i32 range, a negative sum becomes an
\* unsigned position >= len that the range check rejects, and the projector
\* indexes only after checking local index < len.
C8_NoReadOutOfBounds ==
    /\ (ret.fn # "none") =>
          /\ ~ret.out.abort
          /\ ret.out.reads \subseteq 0 .. NumResponses - 1
    /\ IsMatchCall => ~ret.out.overflow
    /\ (ctx.kw # "none" /\ ctx.data.index.kind = "Index") =>
          \A len \in LenSamples :
              LET i == ctx.data.index.idx
                  r == ResolveIndex(len, i)
              IN  /\ ~r.overflow
                  /\ (i < 0 /\ len.l0 + i < 0) =>
                        /\ r.index.l2 = 3
                        /\ UsizeLe(len, r.index)
                        /\ OutOfRange(len, r.index)
                  /\ (i < 0 /\ len.l0 + i >= 0) =>
                        r.index = UsizeOf(len.l0 + i)
                  /\ (i >= 0) => r.index = UsizeOf(i)

\* an Index call whose negative index reaches before the first response of
\* a non-empty transaction and is turned away without a read
C8_Witness ==
    /\ IsMatchCall
    /\ ctx.data.index = Index(MinI32)
    /\ NumResponses = MaxLen
    /\ ret.out.ret = 0
    /\ ret.out.reads = {}

(***************************************************************************)
(* Option text.                                                            *)
(***************************************************************************)
Digits == {"0", "1", "2", "3", "4", "5", "6", "7", "8", "9"}

DigitVal(c) ==
    CASE c = "0" -> 0 [] c = "1" -> 1 [] c = "2" -> 2 [] c = "3" -> 3
      [] c = "4" -> 4 [] c = "5" -> 5 [] c = "6" -> 6 [] c = "7" -> 7
      [] c = "8" -> 8 [] c = "9" -> 9

\* a byte that is not valid UTF-8
BadByte == "<ff>"

\* CStr::to_str: the text, or None when the bytes are not valid UTF-8
to_str(bytes) ==
    IF \E i \in 1 .. Len(bytes) : bytes[i] = BadByte THEN None ELSE Some(bytes)

\* s.split(','): the parts between the commas, at least one
RECURSIVE split(_)
split(s) ==
    IF \A i \in 1 .. Len(s) : s[i] # ","
    THEN <<s>>
    ELSE LET c == CHOOSE i \in 1 .. Len(s) :
                      s[i] = "," /\ \A j \in 1 .. i - 1 : s[j] # ","
         IN  <<SubSeq(s, 1, c - 1)>> \o split(SubSeq(s, c + 1, Len(s)))

\* the digit loop of i32::from_str: checked multiply by ten, then checked
\* add (positive) or subtract (negative) of the digit
RECURSIVE from_str_digits(_, _, _, _)
from_str_digits(s, i, acc, positive) ==
    IF i > Len(s) THEN Some(acc)
    ELSE IF s[i] \notin Digits THEN None
    ELSE LET d == DigitVal(s[i])
             overflow == IF positive
                         THEN acc > MaxI32 \div 10 \/ acc * 10 > MaxI32 - d
                         ELSE acc < -(MaxI32 \div 10) \/ acc * 10 < MinI32 + d
         IN  IF overflow THEN None
             ELSE from_str_digits(s, i + 1,
                      IF positive THEN acc * 10 + d ELSE acc * 10 - d, positive)

\* i32::from_str(s).ok()
i32_from_str(s) ==
    IF s = <<>> THEN None
    ELSE IF s = <<"+">> \/ s = <<"-">> THEN None
    ELSE IF s[1] = "-" THEN from_str_digits(Tail(s), 1, 0, FALSE)
    ELSE IF s[1] = "+" THEN from_str_digits(Tail(s), 1, 0, TRUE)
    ELSE from_str_digits(s, 1, 0, TRUE)

TextAll == <<"a", "l", "l">>
TextAny == <<"a", "n", "y">>

(***************************************************************************)
(* The scalar/enum primitive detect_parse_uint_enum, for the two widths.   *)
(***************************************************************************)
MaxU8 == 255

\* an unsigned decimal number not above max
parse_uint(s, max) ==
    LET n == IF s = <<>> THEN None ELSE from_str_digits(s, 1, 0, TRUE) IN
    IF n.some /\ n.val <= max THEN n ELSE None

\* number, or a comparison sign and a number
detect_parse_uint(s, max) ==
    IF s # <<>> /\ s[1] \in {">", "<", "!"}
    THEN LET n == parse_uint(Tail(s), max) IN
         IF ~n.some THEN None
         ELSE Some(DetectUintData(CASE s[1] = ">" -> "Gt"
                                    [] s[1] = "<" -> "Lt"
                                    [] s[1] = "!" -> "NotEqual", n.val))
    ELSE LET n == parse_uint(s, max) IN
         IF n.some THEN Some(DetectUintData("Equal", n.val)) ELSE None

TextBindResponse == <<"b", "i", "n", "d", "_", "r", "e", "s", "p", "o", "n", "s", "e">>
TextSuccess == <<"s", "u", "c", "c", "e", "s", "s">>

\* detect_parse_uint_enum::<u8, ProtocolOpCode>
detect_parse_uint_enum_u8(s) ==
    LET du == detect_parse_uint(s, MaxU8) IN
    IF du.some THEN du
    ELSE IF s = TextBindResponse THEN Some(DetectUintData("Equal", 1))
    ELSE None

\* detect_parse_uint_enum::<u32, LdapResultCode>; numbers are kept below 2^31
detect_parse_uint_enum_u32(s) ==
    LET du == detect_parse_uint(s, MaxI32) IN
    IF du.some THEN du
    ELSE IF s = TextSuccess THEN Some(DetectUintData("Equal", 0))
    ELSE None

(***************************************************************************)
(* The option parsers.                                                     *)
(***************************************************************************)
\* ldap_index_of with "all" and "any" exchanged
ldap_index_of_swapped(part) ==
    IF part = TextAll THEN Some(Any)
    ELSE IF part = TextAny THEN Some(All)
    ELSE LET i32_index == i32_from_str(part) IN
         IF i32_index.some THEN Some(Index(i32_index.val)) ELSE None

\* match parts[1] { "all" => All, "any" => Any, _ => Index(i32::from_str(..)?) }
ldap_index_of(part) ==
    IF part = TextAll THEN Some(All)
    ELSE IF part = TextAny THEN Some(Any)
    ELSE LET i32_index == i32_from_str(part) IN
         IF i32_index.some THEN Some(Index(i32_index.val)) ELSE None

aux_ldap_parse_protocol_resp_op(s) ==
    LET parts == split(s) IN
    IF Len(parts) > 2 THEN None
    ELSE LET index == IF Len(parts) = 2 THEN ldap_index_of(parts[2])
                      ELSE Some(Any)
         IN  IF ~index.some THEN None
             ELSE LET c == detect_parse_uint_enum_u8(parts[1]) IN
                  IF c.some
                  THEN Some(DetectLdapRespOperationData(c.val, index.val))
                  ELSE None

\* aux_ldap_parse_resp_result_code reading only the first two parts
aux_ldap_parse_resp_result_code_lenient(s) ==
    LET parts == split(s) IN
    LET index == IF Len(parts) >= 2 THEN ldap_index_of(parts[2])
                 ELSE Some(Any)
    IN  IF ~index.some THEN None
        ELSE LET c == detect_parse_uint_enum_u32(parts[1]) IN
             IF c.some
             THEN Some(DetectLdapRespResultData(c.val, index.val))
             ELSE None

aux_ldap_parse_resp_result_code(s) ==
    LET parts == split(s) IN
    IF Len(parts) > 2 THEN None
    ELSE LET index == IF Len(parts) = 2 THEN ldap_index_of(parts[2])
                      ELSE Some(Any)
         IN  IF ~index.some THEN None
             ELSE LET c == detect_parse_uint_enum_u32(parts[1]) IN
                  IF c.some
                  THEN Some(DetectLdapRespResultData(c.val, index.val))
                  ELSE None

\* the boxed option, or None for the null pointer
ldap_parse_protocol_resp_op(ustr) ==
    LET s == to_str(ustr) IN
    IF s.some THEN aux_ldap_parse_protocol_resp_op(s.val) ELSE None

ldap_parse_responses_result_code(ustr) ==
    LET s == to_str(ustr) IN
    IF s.some THEN aux_ldap_parse_resp_result_code(s.val) ELSE None

(***************************************************************************)
(* Option strings the parsers are applied to.                              *)
(***************************************************************************)
MaxRawLen == 4

RawAlphabet == {"5", "-", ",", "a", "l"}

ValueTexts ==
    {
     <<"5">>, <<"3", "0", "0">>, <<">", "4">>, <<"x">>, <<>>,
     <<"s", "u", "c", "c", "e", "s", "s">>,
     <<"b", "i", "n", "d", "_", "r", "e", "s", "p", "o", "n", "s", "e">>}

SelectorTexts ==
    {
     <<"a", "l", "l">>, <<"a", "n", "y">>, <<"A", "L", "L">>,
     <<"A", "l", "l">>, <<" ", "a", "l", "l">>, <<"a", "l", "l", " ">>, <<>>,
     <<"0">>, <<"1">>, <<"-", "1">>, <<"+", "1">>, <<"-">>, <<"+">>,
     <<"-", "0">>, <<"0", "0", "7">>,
     <<"2", "1", "4", "7", "4", "8", "3", "6", "4", "7">>,
     <<"2", "1", "4", "7", "4", "8", "3", "6", "4", "8">>,
     <<"-", "2", "1", "4", "7", "4", "8", "3", "6", "4", "8">>,
     <<"-", "2", "1", "4", "7", "4", "8", "3", "6", "4", "9">>, <<"1", "a">>,
     <<"a">>, <<" ", "1">>, <<"1", " ">>, <<"-", "-", "1">>,
     <<"9", "9", "9", "9", "9", "9", "9", "9", "9", "9", "9">>,
     <<"-", "0", "0", "0", "0", "0", "0", "0", "0", "0", "0", "1">>}

\* option strings holding a byte that is not valid UTF-8
BadByteInputs ==
    {
     <<"<ff>">>, <<"<ff>", ",", "a", "l", "l">>, <<"5", ",", "<ff>">>,
     <<"5", "<ff>">>}

ParseInputs ==
    SeqsUpTo(RawAlphabet, MaxRawLen)
        \cup ValueTexts
        \cup {v \o <<",">> \o t : v \in ValueTexts, t \in SelectorTexts}
        \cup {v \o <<",">> \o t \o <<",">> \o u :
                v \in {<<"5">>, <<"x">>},
                t \in {TextAll, <<"1">>, <<>>}, u \in {TextAny, <<"2">>, <<>>}}
        \cup BadByteInputs

\* option strings of the rules a signature is loaded from
RawSamples ==
    {<<"5">>, <<"0", ",", "a", "l", "l">>, <<"5", ",", "-", "1">>,
     <<"5", ",", "1", ",", "2">>}

(***************************************************************************)
(* Option contexts on the heap, setup and free.                            *)
(***************************************************************************)
\* Box::into_raw(Box::new(ctx)): the new context is the last heap entry
BoxNew(h, kw, data) == Append(h, [kw |-> kw, data |-> data, frees |-> 0])

\* std::mem::drop(Box::from_raw(ctx)); frees counts the drops of one context
ldap_detect_responses_free(h, id) == [h EXCEPT ![id].frees = @ + 1]

ldap_detect_responses_result_code_free(h, id) ==
    [h EXCEPT ![id].frees = @ + 1]

\* what a setup call leaves: its return value, the heap, the signature's
\* list, the context it boxed (0 for none), and the return statement taken
SetupOut(r, h, sm, alloc, site) ==
    [ret |-> r, heap |-> h, sm_list |-> sm, alloc |-> alloc, site |-> site]

\* the setup from the null check on: c is what the parser returned, and
\* append_fails says that SigMatchAppendSMToList returned null
operation_setup_ctx(h, sm, c, append_fails) ==
    IF ~c.some THEN SetupOut(-1, h, sm, 0, "null ctx")
    ELSE IF append_fails
    THEN SetupOut(-1, ldap_detect_responses_free(
                          BoxNew(h, "operation", c.val), Len(h) + 1),
                  sm, Len(h) + 1, "append failed")
    ELSE SetupOut(0, BoxNew(h, "operation", c.val), Append(sm, Len(h) + 1),
                  Len(h) + 1, "appended")

\* proto_fails says that DetectSignatureSetAppProto returned non-zero
ldap_detect_responses_operation_setup(h, sm, r, proto_fails, append_fails) ==
    IF proto_fails THEN SetupOut(-1, h, sm, 0, "proto failed")
    ELSE operation_setup_ctx(h, sm, ldap_parse_protocol_resp_op(r), append_fails)

\* result_code_setup_ctx not freeing the context when the append fails
result_code_setup_ctx_leak(h, sm, c, append_fails) ==
    IF ~c.some THEN SetupOut(-1, h, sm, 0, "null ctx")
    ELSE IF append_fails
    THEN SetupOut(-1, BoxNew(h, "result_code", c.val), sm, Len(h) + 1,
                  "append failed")
    ELSE SetupOut(0, BoxNew(h, "result_code", c.val), Append(sm, Len(h) + 1),
                  Len(h) + 1, "appended")

result_code_setup_ctx(h, sm, c, append_fails) ==
    IF ~c.some THEN SetupOut(-1, h, sm, 0, "null ctx")
    ELSE IF append_fails
    THEN SetupOut(-1, ldap_detect_responses_result_code_free(
                          BoxNew(h, "result_code", c.val), Len(h) + 1),
                  sm, Len(h) + 1, "append failed")
    ELSE SetupOut(0, BoxNew(h, "result_code", c.val), Append(sm, Len(h) + 1),
                  Len(h) + 1, "appended")

ldap_detect_responses_result_code_setup(h, sm, r, proto_fails, append_fails) ==
    IF proto_fails THEN SetupOut(-1, h, sm, 0, "proto failed")
    ELSE result_code_setup_ctx(h, sm, ldap_parse_responses_result_code(r),
                               append_fails)

(***************************************************************************)
(* The engine: it loads a signature keyword by keyword, runs it on the     *)
(* workers' transactions, and unloads it.                                  *)
(***************************************************************************)
NumWorkers == 2
Workers == 1 .. NumWorkers

\* a setup call as the engine sees it
SetupEntry(kw, out, proto_fails, append_fails) ==
    [kw |-> kw, ret |-> out.ret, alloc |-> out.alloc, site |-> out.site,
     proto_fails |-> proto_fails, append_fails |-> append_fails]

\* a failed setup makes the engine drop the signature it is loading
AfterSetup(out) == IF out.ret = 0 THEN "loading" ELSE "unloading"

SetupRespOperation(r) ==
    /\ phase = "loading"
    /\ Len(setup_ret) < MaxKeywords
    /\ \E proto_fails, append_fails \in BOOLEAN :
          \E out \in {ldap_detect_responses_operation_setup(
                          heap, sm_list, r, proto_fails, append_fails)} :
              /\ heap' = out.heap
              /\ sm_list' = out.sm_list
              /\ setup_ret' = Append(setup_ret,
                     SetupEntry("operation", out, proto_fails, append_fails))
              /\ phase' = AfterSetup(out)
    /\ UNCHANGED <<evalVars, parseVars, loopVars, txs, results, uaf>>

SetupRespResultCode(r) ==
    /\ phase = "loading"
    /\ Len(setup_ret) < MaxKeywords
    /\ \E proto_fails, append_fails \in BOOLEAN :
          \E out \in {ldap_detect_responses_result_code_setup(
                          heap, sm_list, r, proto_fails, append_fails)} :
              /\ heap' = out.heap
              /\ sm_list' = out.sm_list
              /\ setup_ret' = Append(setup_ret,
                     SetupEntry("result_code", out, proto_fails, append_fails))
              /\ phase' = AfterSetup(out)
    /\ UNCHANGED <<evalVars, parseVars, loopVars, txs, results, uaf>>

\* every keyword of the rule was set up
LoadDone ==
    /\ phase = "loading"
    /\ setup_ret # <<>>
    /\ phase' = "running"
    /\ UNCHANGED <<evalVars, parseVars, loopVars,
                   heap, sm_list, setup_ret, txs, results, uaf>>

\* worker w runs the k-th keyword of the signature on its transaction
RunRespOperationMatch ==
    /\ phase = "running"
    /\ \E w \in Workers : \E k \in 1 .. Len(sm_list) :
          LET id == sm_list[k] IN
          /\ heap[id].kw = "operation"
          /\ results' = [results EXCEPT ![w] =
                 [id |-> id,
                  ret |-> ldap_detect_responses_operation_match(
                              txs[w], heap[id].data).ret]]
          /\ uaf' = (uaf \/ heap[id].frees > 0)
    /\ UNCHANGED <<evalVars, parseVars, loopVars,
                   heap, sm_list, phase, setup_ret, txs>>

RunRespResultCodeMatch ==
    /\ phase = "running"
    /\ \E w \in Workers : \E k \in 1 .. Len(sm_list) :
          LET id == sm_list[k] IN
          /\ heap[id].kw = "result_code"
          /\ results' = [results EXCEPT ![w] =
                 [id |-> id,
                  ret |-> ldap_detect_responses_result_code_match(
                              txs[w], heap[id].data).ret]]
          /\ uaf' = (uaf \/ heap[id].frees > 0)
    /\ UNCHANGED <<evalVars, parseVars, loopVars,
                   heap, sm_list, phase, setup_ret, txs>>

\* the rule is unloaded
Unload ==
    /\ phase = "running"
    /\ phase' = "unloading"
    /\ UNCHANGED <<evalVars, parseVars, loopVars,
                   heap, sm_list, setup_ret, txs, results, uaf>>

\* the engine calls the keyword's Free on each context of the signature, once
EngineFree ==
    /\ phase = "unloading"
    /\ IF sm_list = <<>>
       THEN /\ phase' = "unloaded"
            /\ UNCHANGED <<heap, sm_list>>
       ELSE /\ heap' = IF heap[Head(sm_list)].kw = "operation"
                       THEN ldap_detect_responses_free(heap, Head(sm_list))
                       ELSE ldap_detect_responses_result_code_free(
                                heap, Head(sm_list))
            /\ sm_list' = Tail(sm_list)
            /\ UNCHANGED phase
    /\ UNCHANGED <<evalVars, parseVars, loopVars, setup_ret, txs, results, uaf>>

\* transactions of different response counts, one per worker
TxSamples ==
    {LdapTransaction(Some(SearchRequest),
         <<LdapMessage(ResultOp("BindResponse", 49, LongText))>>),
     LdapTransaction(Some(SearchRequest),
         <<LdapMessage(PlainOp("SearchResultEntry")),
           LdapMessage(ResultOp("SearchResultDone", 0, NoText))>>),
     LdapTransaction(Some(SearchRequest),
         <<LdapMessage(ResultOp("SearchResultDone", 5, ShortText)),
           LdapMessage(PlainOp("SearchResultEntry")),
           LdapMessage(ResultOp("SearchResultDone", 0, NoText))>>)}

Init ==
    /\ EvalIdle /\ ParseIdle /\ LoopIdle
    /\ heap = <<>>
    /\ sm_list = <<>>
    /\ phase = "loading"
    /\ setup_ret = <<>>
    /\ txs \in {f \in [Workers -> TxSamples] :
                   \A v, w \in Workers : v # w => f[v] # f[w]}
    /\ results = [w \in Workers |-> NoCall]
    /\ uaf = FALSE

Next ==
    \/ \E r \in RawSamples : SetupRespOperation(r)
    \/ \E r \in RawSamples : SetupRespResultCode(r)
    \/ LoadDone
    \/ RunRespOperationMatch
    \/ RunRespResultCodeMatch
    \/ Unload
    \/ EngineFree

Spec == Init /\ [][Next]_vars

(***************************************************************************)
(* The parsers and one setup call on one option string.                    *)
(***************************************************************************)
ParseRespOperation ==
    /\ parsed' = [fn |-> "operation", out |-> ldap_parse_protocol_resp_op(raw)]
    /\ UNCHANGED <<raw, evalVars, loopVars, lifeVars>>

ParseRespResultCode ==
    /\ parsed' = [fn |-> "result_code",
                  out |-> ldap_parse_responses_result_code(raw)]
    /\ UNCHANGED <<raw, evalVars, loopVars, lifeVars>>

ParseInit ==
    /\ raw \in ParseInputs
    /\ parsed = NoCall
    /\ EvalIdle /\ LoopIdle
    /\ heap = <<>>
    /\ sm_list = <<>>
    /\ phase = "loading"
    /\ setup_ret = <<>>
    /\ txs = <<>>
    /\ results = <<>>
    /\ uaf = FALSE

ParseNext ==
    \/ ParseRespOperation
    \/ ParseRespResultCode
    \/ setup_ret = <<>> /\ SetupRespOperation(raw)
    \/ setup_ret = <<>> /\ SetupRespResultCode(raw)

SpecParse == ParseInit /\ [][ParseNext]_vars

(***************************************************************************)
(* What the parser claims speak of, read from the option text.             *)
(***************************************************************************)
CommaCount(s) == Cardinality({i \in 1 .. Len(s) : s[i] = ","})

FirstComma(s) == CHOOSE i \in 1 .. Len(s) :
                     s[i] = "," /\ \A j \in 1 .. i - 1 : s[j] # ","

\* the text before the first comma, or all of it
ValueSpec(s) ==
    IF CommaCount(s) = 0 THEN s ELSE SubSeq(s, 1, FirstComma(s) - 1)

\* the text after the comma of a string with one comma
SelectorSpec(s) == SubSeq(s, FirstComma(s) + 1, Len(s))

IsValidText(s) == \A i \in 1 .. Len(s) : s[i] # BadByte

\* a decimal integer text: an optional sign, then one digit or more
SignOf(t) == IF t # <<>> /\ t[1] = "-" THEN -1 ELSE 1
DigitsOf(t) == IF t # <<>> /\ t[1] \in {"+", "-"} THEN Tail(t) ELSE t
IsDecimal(t) ==
    /\ DigitsOf(t) # <<>>
    /\ \A i \in 1 .. Len(DigitsOf(t)) : DigitsOf(t)[i] \in Digits

\* the digits without their leading zeros
RECURSIVE Significant(_)
Significant(u) ==
    IF u # <<>> /\ u[1] = "0" THEN Significant(Tail(u)) ELSE u

\* u <= v for two digit texts of the same length
RECURSIVE DigitsLe(_, _)
DigitsLe(u, v) ==
    \/ u = <<>>
    \/ DigitVal(u[1]) < DigitVal(v[1])
    \/ u[1] = v[1] /\ DigitsLe(Tail(u), Tail(v))

TextMaxI32 == <<"2", "1", "4", "7", "4", "8", "3", "6", "4", "7">>
TextMinI32Magnitude == <<"2", "1", "4", "7", "4", "8", "3", "6", "4", "8">>

\* the decimal integer lies in -2^31 .. 2^31 - 1
InI32Range(t) ==
    LET u == Significant(DigitsOf(t)) IN
    \/ Len(u) < 10
    \/ Len(u) = 10 /\ DigitsLe(u, IF SignOf(t) = -1 THEN TextMinI32Magnitude
                                  ELSE TextMaxI32)

IsI32Text(t) == IsDecimal(t) /\ InI32Range(t)

RECURSIVE Pow10(_)
Pow10(k) == IF k = 0 THEN 1 ELSE 10 * Pow10(k - 1)

\* the value of an in-range decimal integer text, summed digit by digit
\* with the sign applied to every term
RECURSIVE SignedSum(_, _)
SignedSum(u, sign) ==
    IF u = <<>> THEN 0
    ELSE sign * DigitVal(u[1]) * Pow10(Len(u) - 1) + SignedSum(Tail(u), sign)

I32Value(t) == SignedSum(Significant(DigitsOf(t)), SignOf(t))

\* the primitive of the keyword accepts the value-spec
Accepts(kw, v) ==
    /\ IsValidText(v)
    /\ IF kw = "operation" THEN detect_parse_uint_enum_u8(v).some
       ELSE detect_parse_uint_enum_u32(v).some

ConstraintFrom(kw, v) ==
    IF kw = "operation" THEN detect_parse_uint_enum_u8(v).val
    ELSE detect_parse_uint_enum_u32(v).val

ParsedConstraint == ConstraintOf([kw |-> parsed.fn, data |-> parsed.out.val])

\* the selector-spec is "all", "any" or a decimal integer of the i32 range
IsSelectorText(t) == t = TextAll \/ t = TextAny \/ IsI32Text(t)

\* C4: an option string value-spec or value-spec,selector-spec whose
\* value-spec the primitive accepts parses to an option whose selector is
\* Any without a comma, Any for "any", All for "all" and Index(n) for any
\* other selector text that is a decimal i32 n; its constraint is the one the
\* primitive made of the text before the comma.  Both parsers.
C4_SelectorFromSelectorText ==
    (parsed.fn # "none" /\ IsValidText(raw) /\ CommaCount(raw) <= 1
        /\ Accepts(parsed.fn, ValueSpec(raw))) =>
        /\ CommaCount(raw) = 0 =>
              parsed.out.some /\ parsed.out.val.index = Any
        /\ (CommaCount(raw) = 1 /\ SelectorSpec(raw) = TextAny) =>
              parsed.out.some /\ parsed.out.val.index = Any
        /\ (CommaCount(raw) = 1 /\ SelectorSpec(raw) = TextAll) =>
              parsed.out.some /\ parsed.out.val.index = All
        /\ (CommaCount(raw) = 1 /\ IsI32Text(SelectorSpec(raw))) =>
              /\ parsed.out.some
              /\ parsed.out.val.index = Index(I32Value(SelectorSpec(raw)))
        /\ parsed.out.some =>
              ParsedConstraint = ConstraintFrom(parsed.fn, ValueSpec(raw))

\* "5,all" parsed by the result-code parser
C4_Witness ==
    /\ raw = <<"5", ",", "a", "l", "l">>
    /\ parsed.fn = "result_code"
    /\ parsed.out = Some(DetectLdapRespResultData(DetectUintData("Equal", 5), All))

\* the option text is one the claim lists as a failure
ParseMustFail(kw, s) ==
    \/ CommaCount(s) >= 2
    \/ CommaCount(s) = 1 /\ ~IsSelectorText(SelectorSpec(s))
    \/ ~Accepts(kw, ValueSpec(s))

\* C5: parsing fails (and the setup then returns -1 and appends nothing) when
\* the string has two commas or more, when a selector-spec is present that is
\* not exactly "all" or "any" nor a decimal integer of the i32 range, or when
\* the primitive rejects the value-spec; and in no other case.
C5_ParseFailsExactlyOnListedCases ==
    /\ parsed.fn # "none" =>
          (~parsed.out.some <=> ParseMustFail(parsed.fn, raw))
    /\ \A k \in 1 .. Len(setup_ret) :
          (~setup_ret[k].proto_fails) =>
              /\ setup_ret[k].site = "null ctx"
                    <=> ParseMustFail(setup_ret[k].kw, raw)
              /\ ParseMustFail(setup_ret[k].kw, raw) =>
                    /\ setup_ret[k].ret = -1
                    /\ sm_list = <<>>
                    /\ heap = <<>>

\* "5,all,any": every part is valid, the parser fails on the count
C5_Witness ==
    /\ raw = <<"5", ",", "a", "l", "l", ",", "a", "n", "y">>
    /\ parsed # NoCall
    /\ ~parsed.out.some
    /\ setup_ret # <<>>
    /\ setup_ret[1].ret = -1

(***************************************************************************)
(* What the life-cycle claims speak of.                                    *)
(***************************************************************************)
HeapIds == 1 .. Len(heap)
Appended == {sm_list[k] : k \in 1 .. Len(sm_list)}
SetupCalls == {setup_ret[k] : k \in 1 .. Len(setup_ret)}

\* C9: every option context a setup allocates is destroyed exactly once: a
\* failed protocol set or parse leaves no context and returns -1; a failed
\* append makes the setup free the context once and return -1, and the
\* engine never receives it; after a return of 0 the signature owns the
\* context, which only the engine's one later free call frees.  No context
\* is freed twice, left unfreed after the unload, or read by a match call
\* after it was freed.
C9_ContextFreedExactlyOnce ==
    /\ \A id \in HeapIds : heap[id].frees <= 1
    /\ ~uaf
    /\ phase = "unloaded" => \A id \in HeapIds : heap[id].frees = 1
    /\ Len(heap) = Cardinality({k \in 1 .. Len(setup_ret) :
                                    setup_ret[k].alloc # 0})
    /\ \A e \in SetupCalls :
          /\ (e.ret = 0) <=> (e.site = "appended")
          /\ e.ret \in {0, -1}
          /\ e.proto_fails => e.site = "proto failed"
          /\ e.site \in {"proto failed", "null ctx"} => e.alloc = 0
          /\ e.site = "append failed" =>
                /\ e.append_fails
                /\ e.alloc \in HeapIds
                /\ heap[e.alloc].frees = 1
                /\ e.alloc \notin Appended
          /\ e.site = "appended" =>
                /\ ~e.append_fails
                /\ e.alloc \in HeapIds
                /\ phase \in {"loading", "running"} =>
                      heap[e.alloc].frees = 0 /\ e.alloc \in Appended
                /\ phase = "unloading" =>
                      (heap[e.alloc].frees = 0 <=> e.alloc \in Appended)

\* an unloaded signature one of whose setups appended its context and
\* another freed its own after a failed append
C9_Witness ==
    /\ phase = "unloaded"
    /\ \E e \in SetupCalls : e.site = "appended" /\ e.kw = "result_code"
    /\ \E e \in SetupCalls : e.site = "append failed" /\ e.kw = "result_code"

\* the result of one evaluation of option c on transaction t, on its own
Expected(c, t) ==
    LET n == Len(t.responses)
        sel == c.data.index
    IN  IF sel = Any
        THEN IF \E i \in 1 .. n : Passes(c, t.responses[i]) THEN 1 ELSE 0
        ELSE IF sel = All
        THEN IF \E i \in 1 .. n : Fails(c, t.responses[i]) THEN 0 ELSE 1
        ELSE LET pos == IF sel.idx >= 0 THEN sel.idx ELSE n + sel.idx IN
             IF pos < 0 \/ pos >= n THEN 0
             ELSE IF Passes(c, t.responses[pos + 1]) THEN 1 ELSE 0

\* C10: a match call leaves the option and the transaction unchanged, and
\* its result is that of a single evaluation of that option on that
\* transaction, whatever the other workers evaluate before or meanwhile; an
\* Index selector is resolved against the response count of the transaction
\* of that call.
C10_MatchIsPureAndFramed ==
    [][results' # results =>
          /\ heap' = heap
          /\ txs' = txs
          /\ sm_list' = sm_list
          /\ \A w \in Workers :
                results'[w] # results[w] =>
                    results'[w].ret = Expected(heap[results'[w].id], txs[w])]_vars

\* two workers hold different results of the same Index option on
\* transactions of different response counts
C10_Witness ==
    /\ phase = "running"
    /\ \E v, w \in Workers :
          /\ results[v] # NoCall /\ results[w] # NoCall
          /\ results[v].id = results[w].id
          /\ heap[results[v].id].data.index.kind = "Index"
          /\ Len(txs[v].responses) # Len(txs[w].responses)
          /\ results[v].ret = 1 /\ results[w].ret = 0

(***************************************************************************)
(* ldap.request.operation                                                  *)
(***************************************************************************)
\* the boxed DetectUintData<u8>, or None for the null pointer
ldap_parse_protocol_req_op(ustr) ==
    LET s == to_str(ustr) IN
    IF s.some THEN detect_parse_uint_enum_u8(s.val) ELSE None

ReqCtx(data) == [kw |-> "request", data |-> data]

\* the variant that falls back on the first response when there is no request
ldap_detect_request_operation_match_fallback(t, c) ==
    IF t.request.some
    THEN MatchOut(rs_detect_u8_match(to_u8(t.request.val.protocol_op), c),
                  {}, FALSE, FALSE)
    ELSE IF Len(t.responses) > 0
         THEN MatchOut(rs_detect_u8_match(to_u8(t.responses[1].protocol_op), c),
                       {0}, FALSE, FALSE)
         ELSE MatchOut(0, {}, FALSE, FALSE)

\* if let Some(request) = &tx.request: the scalar match of the request's
\* operation code; 0 otherwise; tx.responses is not read
ldap_detect_request_operation_match(t, c) ==
    IF t.request.some
    THEN MatchOut(rs_detect_u8_match(to_u8(t.request.val.protocol_op), c),
                  {}, FALSE, FALSE)
    ELSE MatchOut(0, {}, FALSE, FALSE)

\* requests a client can send
RequestPool ==
    {LdapMessage(PlainOp(tag)) :
        tag \in {"BindRequest", "UnbindRequest", "SearchRequest",
                 "ExtendedRequest"}}

\* responses of a transaction whose request is tested
ReqResponsePool ==
    {LdapMessage(ResultOp("BindResponse", 0, NoText)),
     LdapMessage(PlainOp("SearchResultEntry")),
     LdapMessage(ResultOp("SearchResultDone", 32, ShortText))}

ReqResponses == SeqsUpTo(ReqResponsePool, MaxLen)

\* transactions with and without a request (a response seen before its
\* request, or unsolicited, leaves the request empty)
ReqTransactions ==
    {LdapTransaction(rq, rs) :
        rq \in {None} \cup {Some(m) : m \in RequestPool}, rs \in ReqResponses}

\* option strings of ldap.request.operation rules
ReqTexts ==
    {<<"0">>, <<"3">>, <<"2", "3">>, <<">", "1">>, <<"<", "4">>, <<"!", "3">>,
     <<"1">>, <<"4">>, TextBindResponse, <<"3", "0", "0">>, <<"x">>,
     <<"<ff>">>}

\* the parser is called on the rule's option string; the pointer it returns
\* is the context of the later match calls
ParseProtocolReqOp ==
    /\ parsed = NoCall
    /\ \E out \in {ldap_parse_protocol_req_op(raw)} :
          /\ parsed' = [fn |-> "request", out |-> out]
          /\ ctx' = IF out.some THEN ReqCtx(out.val) ELSE ctx
    /\ UNCHANGED <<tx, ret, raw, loopVars, lifeVars>>

RequestOperationMatch ==
    /\ ctx.kw = "request"
    /\ ret' = [fn |-> "request_match",
               out |-> ldap_detect_request_operation_match(tx, ctx.data)]
    /\ UNCHANGED <<tx, ctx, parseVars, loopVars, lifeVars>>

RequestInit ==
    /\ tx \in ReqTransactions
    /\ ctx = NoCtx
    /\ ret = NoCall
    /\ raw \in ReqTexts
    /\ parsed = NoCall
    /\ LoopIdle /\ LifeIdle

RequestNext ==
    \/ ParseProtocolReqOp
    \/ RequestOperationMatch

SpecRequest == RequestInit /\ [][RequestNext]_vars

\* the request's operation code satisfies the constraint
RequestPasses(t, du) ==
    t.request.some /\ detect_match_uint(to_u8(t.request.val.protocol_op), du)

\* C11: the ldap.request.operation matcher returns 0 for every transaction
\* without a request, whatever the constraint and the responses; with a
\* request it returns the scalar match of the request's operation code
\* against the constraint, reads no response, and gives the same result for
\* every other sequence of responses beside the same request.
C11_RequestMatchIgnoresResponses ==
    (ret.fn = "request_match") =>
        /\ ~tx.request.some => ret.out.ret = 0
        /\ tx.request.some =>
              ret.out.ret = rs_detect_u8_match(
                                to_u8(tx.request.val.protocol_op), ctx.data)
        /\ ret.out.reads = {} /\ ~ret.out.abort /\ ~ret.out.overflow
        /\ \A rs \in ReqResponses :
              ldap_detect_request_operation_match(
                  LdapTransaction(tx.request, rs), ctx.data).ret = ret.out.ret

\* a request that passes beside responses none of whose operation codes pass:
\* the match is 1
C11_Witness ==
    /\ ret.fn = "request_match"
    /\ RequestPasses(tx, ctx.data)
    /\ Len(tx.responses) = MaxLen
    /\ \A i \in 1 .. Len(tx.responses) :
          ~detect_match_uint(to_u8(tx.responses[i].protocol_op), ctx.data)
    /\ ret.out.ret = 1

====
